---- MODULE Spec2Model ----
(***************************************************************************)
(* Storage service (src/src/services/duckDBService.js) with its cascading  *)
(* backend selection, and the shared-instance registry                     *)
(* (src/src/services/duckDBSingleton.js), as a state machine.              *)
(*                                                                         *)
(* Execution model: Node.js, one thread.  An action is one run of          *)
(* synchronous code together with the promise continuations (microtasks)   *)
(* it makes runnable; a suspension on real I/O (an engine callback, an     *)
(* fs.promises call) ends the action.                                      *)
(*                                                                         *)
(* Who calls what:                                                         *)
(*  - registry clients (PipelineService, DataService, TransformationService,*)
(*    app.js) obtain the shared service with getInstance(), use it, and    *)
(*    some of them close it directly;                                      *)
(*  - in the same process ReportsService constructs a service of its own   *)
(*    for every report, initializes it and queries it;                     *)
(*  - the test-suite of the service (tests/duckdb.test.js) runs in a       *)
(*    process of its own: it constructs a service and calls initialize(),  *)
(*    the operations and close() on it, one call after the other.          *)
(* Spec is the application process, SpecRegistry the same with clients     *)
(* that also call the registry's close() (no module of the repository      *)
(* does), SpecService the service under its test-suite, SpecData the       *)
(* service under its test-suite with the records it stores.                *)
(***************************************************************************)
EXTENDS Integers, FiniteSets, Sequences, Bags, TLC

\* ---------------------------------------------------------------- bounds
NumCallers == 2
\* initialize() calls made in one run of the process; a call constructs at
\* most one handle, and a service is initialized when it is constructed, so
\* this also bounds the services and the handles.
MaxInits == 2
\* records handed to insertData in one run, records in one call, and
\* milliseconds the clock shows during the run
MaxRecords == 2
MaxBatch == 2
MaxClock == 2

Services == 1..MaxInits
HandleIds == 1..MaxInits
NULL == 0

VARIABLES
  \* DuckDBSingleton fields
  instance, initializationPromise, isInitializing,
  \* DuckDBService objects: how many were constructed, who constructed
  \* each, its fields, the position and local state of the initialize() in
  \* flight on it, the handle a close() in flight on it was called on
  nServices, born, db, isAvailable, dbType,
  ipc, ictx, closing,
  \* initialize() calls made so far
  nInits,
  \* native connection handles
  nHandles, hstate,
  \* registry clients: a bag of NumCallers records [pc, ref, awaiting]
  callers,
  \* observations (history)
  selected, closedSince, registryClosed,
  \* observations of the step just taken
  lastInit, lastOp, lastRegClose,
  \* stored data of the service under test: the rows of sensor_data in its
  \* database file and the next value of the id sequence, the JSON files in
  \* its fallback directory (by the millisecond in their name), the clock
  table, nextId, files, now,
  \* the data operation just called and what it returned; the records
  \* supplied so far (history), those supplied to calls that resolved, and
  \* whether an insertData call rejected
  lastData, nSupplied, nResolved, insertRejected,
  \* the data operations that are in flight, by the client that called them
  pending,
  \* the configurations services were constructed with, and their paths
  built

regVars == <<instance, initializationPromise, isInitializing>>
svcVars ==
  <<nServices, nInits, born, db, isAvailable, dbType, ipc, ictx, closing>>
hVars == <<nHandles, hstate>>
histVars == <<selected, closedSince, registryClosed>>
obsVars == <<lastInit, lastOp, lastRegClose>>
storeVars == <<table, nextId, files, now>>
extVars == <<pending, built>>
dataVars ==
  <<storeVars, lastData, nSupplied, nResolved, insertRejected, extVars>>
vars == <<regVars, svcVars, hVars, callers, histVars, obsVars, dataVars>>

\* ------------------------------------------------------------ constructor
\* duckDBService.js constructor: db = null, isAvailable = false, dbType = null
NoCtx == [duck |-> "notrun", sqlite |-> "notrun", threw |-> "no",
          wasReady |-> FALSE, db0 |-> NULL, avail0 |-> FALSE,
          type0 |-> "null", mode0 |-> "none", opened |-> 0, h |-> NULL]

NoInit == [svc |-> NULL, mode |-> "none", err |-> FALSE, duck |-> "notrun",
           sqlite |-> "notrun", threw |-> "no", wasReady |-> FALSE,
           avail |-> FALSE, type |-> "null", dbv |-> NULL, db0 |-> NULL,
           avail0 |-> FALSE, type0 |-> "null", mode0 |-> "none",
           opened |-> 0]

NoOp == [svc |-> NULL, source |-> "none", sel |-> "none", closed |-> FALSE]

\* No data operation was called in this step.
NoResult == [op |-> "none"]

\* A fallback file name that is not in the directory.
NoFile == [exists |-> FALSE, data |-> <<>>]

Clock == 1..MaxClock

\* A registry client is at one of these places:
\*   "idle"        not in a call and holding nothing,
\*   "initiating"  in getInstance() 25-30, awaiting the initializeInstance it
\*                 started (awaiting: the service being initialized),
\*   "waiting"     in getInstance() 18-22, awaiting initializationPromise,
\*   "holding"     getInstance() resolved to ref (a service, or null),
\*   "failed"      getInstance() rejected,
\*   "closing"     awaiting close() of the service it held,
\*   "regClosing"  in DuckDBSingleton.close 57, awaiting instance.close().
\* Clients at the same place with the same values are interchangeable, so
\* they are kept as a bag.
Caller(pc, r, a) == [pc |-> pc, ref |-> r, awaiting |-> a]
IdleCaller == Caller("idle", NULL, NULL)
Callers == BagToSet(callers)
Move(k1, k2) == (callers (-) SetToBag({k1})) (+) SetToBag({k2})

\* The clients that call data operations without awaiting one another, and
\* the slot of one that has no call in flight.
Clients == 1..NumCallers
NoCall == [st |-> "idle"]

Init ==
  /\ instance = NULL
  /\ initializationPromise = NULL
  /\ isInitializing = FALSE
  /\ nServices = 0
  /\ nInits = 0
  /\ born = [s \in Services |-> "none"]
  /\ db = [s \in Services |-> NULL]
  /\ isAvailable = [s \in Services |-> FALSE]
  /\ dbType = [s \in Services |-> "null"]
  /\ ipc = [s \in Services |-> "idle"]
  /\ ictx = [s \in Services |-> NoCtx]
  /\ closing = [s \in Services |-> NULL]
  /\ nHandles = 0
  /\ hstate = [h \in HandleIds |-> "free"]
  /\ callers = [k \in {IdleCaller} |-> NumCallers]
  /\ selected = [s \in Services |-> "none"]
  /\ closedSince = [s \in Services |-> FALSE]
  /\ lastInit = NoInit
  /\ lastOp = NoOp
  /\ lastRegClose = NULL
  /\ registryClosed = FALSE
  /\ table = <<>>
  /\ nextId = 1
  /\ files = [c \in Clock |-> NoFile]
  /\ now = 1
  /\ lastData = NoResult
  /\ nSupplied = 0
  /\ nResolved = 0
  /\ insertRejected = FALSE
  /\ pending = [c \in Clients |-> NoCall]
  /\ built = {}

\* ------------------------------------------------------------- registry
\* (variant: the cached instance is not looked at)
GetInstancePath_noCache(inst, initing) ==
  IF initing THEN "wait" ELSE "init"

\* getInstance(), duckDBSingleton.js 13-23: which of the three paths a call
\* takes, from the two fields it tests.
GetInstancePath(inst, initing) ==
  IF inst # NULL THEN "cached"
  ELSE IF initing THEN "wait"
  ELSE "init"

\* (variant: a failed initialization leaves the cached instance)
SettledInstance_kept(inst, ok) == inst

\* initializeInstance 47 and 48-51: this.instance once the initialize() it
\* awaited settled; the catch block nulls it.
SettledInstance(inst, ok) == IF ok THEN inst ELSE NULL

\* The continuations that run when the initialize() of service s settles
\* (ok: resolved, ~ok: rejected), in microtask order:
\*   initializeInstance 47 / 48-51, then getInstance 28-30 of the initiator
\*   and getInstance 20 of every waiter.
RegistryOnSettled(s, ok) ==
  IF born[s] # "registry"
  THEN UNCHANGED <<regVars, callers>>
  ELSE
    LET inst1 == SettledInstance(instance, ok)
        initiators == {k \in Callers : k.pc = "initiating" /\ k.awaiting = s}
        waiters == {k \in Callers : k.pc = "waiting" /\ k.awaiting = s}
        resumed == initiators \cup waiters
        After(k) == IF k \notin resumed THEN k
                    ELSE IF ok THEN Caller("holding", instance, NULL)
                    ELSE Caller("failed", NULL, NULL)
    IN /\ instance' = inst1
       /\ isInitializing' = IF initiators # {} THEN FALSE ELSE isInitializing
       /\ UNCHANGED initializationPromise
       /\ callers' = BagOfAll(After, callers)

\* ----------------------------------------------------- initialize(), 29-84
\* The spec's Ready state: the last initialize() resolved and no close()
\* completed since.
Ready(s) == ipc[s] = "idle" /\ selected[s] # "none" /\ ~closedSince[s]

\* Another initialize() call fits in the run.
CanStart == nInits < MaxInits

\* One call of initialize() on one service is followed through a record L:
\*   pc            where the call is suspended ("settled" when it returned),
\*   db, avail, type   the service's fields this.db, this.isAvailable,
\*                     this.dbType,
\*   nH, hs        the handles created so far and their states,
\*   mode, err     the result object's mode ("rejected" for a rejection) and
\*                 whether it carries an error message,
\*   ctx           what the call went through (probe results, what threw,
\*                 handles opened, the handle it created) and the service's
\*                 fields when it was called.
\* Each function below is one turn of the call and gives the set of records
\* the turn can end in, one for every outcome the environment can produce.
Local(s) ==
  [pc |-> ipc[s], ctx |-> ictx[s], db |-> db[s], avail |-> isAvailable[s],
   type |-> dbType[s], nH |-> nHandles, hs |-> hstate,
   mode |-> "none", err |-> FALSE]

Snapshot(s) ==
  [NoCtx EXCEPT !.wasReady = Ready(s), !.db0 = db[s],
                !.avail0 = isAvailable[s], !.type0 = dbType[s],
                !.mode0 = selected[s]]

\* (variant: the relational probe's answer is ignored)
CheckSQLite_ignored(L) ==
  { [L EXCEPT !.ctx.sqlite = "true", !.pc = "initializeFallback"],
    [L EXCEPT !.ctx.sqlite = "false", !.pc = "initializeFallback"] }

\* checkSQLite(), 134-146, is synchronous: it says true or false, and
\* initialize() 49-65 suspends in initializeSQLite or initializeFallback.
CheckSQLite(L) ==
  { [L EXCEPT !.ctx.sqlite = "true", !.pc = "initializeSQLite"],
    [L EXCEPT !.ctx.sqlite = "false", !.pc = "initializeFallback"] }

\* initialize() 29-34 with checkDuckDB 86-98: require('duckdb') succeeds and
\* the probe connection is awaited, or it throws and checkDuckDB is false.
InitializeBegin(L) ==
  { [L EXCEPT !.pc = "checkDuckDB"] }
    \cup CheckSQLite([L EXCEPT !.ctx.duck = "false"])

\* checkDuckDB 101-127: the probe connection called back without error
\* (true), or with one, or the 10 s timer won (false).
CheckDuckDB(L) ==
  { [L EXCEPT !.ctx.duck = "true", !.pc = "initializeDuckDB"] }
    \cup CheckSQLite([L EXCEPT !.ctx.duck = "false"])

\* initializeDuckDB 148-161: after the directory is made (a failure there is
\* only logged), this.db = new duckdb.Database(path, cb).
InitializeDuckDB(L) ==
  LET h == L.nH + 1 IN
  { [L EXCEPT !.nH = h, !.hs[h] = "opening", !.db = h,
              !.ctx.h = h, !.ctx.opened = @ + 1, !.pc = "openDuckDB"] }

\* initialize() 73-75: an exception of a backend's construction arrives in
\* the catch block, which awaits initializeFallback.
Caught(L) == [L EXCEPT !.ctx.threw = "backend", !.pc = "catchFallback"]

\* initializeDuckDB 161-171: the callback of new duckdb.Database.  With an
\* error the promise rejects; else the flags are set and createDuckDBTables
\* starts (its first statement throws inside the promise executor when
\* this.db is null).
OpenDuckDBCallback(L) ==
  LET h == L.ctx.h
      opened == [L EXCEPT !.hs[h] = "duckdb", !.avail = TRUE,
                          !.type = "duckdb"]
  IN { Caught([L EXCEPT !.hs[h] = "closed"]),
       IF L.db = NULL THEN Caught(opened)
       ELSE [opened EXCEPT !.pc = "createDuckDBTables"] }

\* createDuckDBTables 195-244 and initialize() 38-43: the three chained
\* statements (create sequence, drop table, create table) finished, or one
\* of them failed.  The engine runs the calls on one connection in the order
\* they were made, so once a close() of the handle has completed a statement
\* can only fail.
CreateDuckDBTables(L) ==
  (IF L.db # NULL /\ L.hs[L.ctx.h] = "duckdb"
   THEN { [L EXCEPT !.mode = "duckdb", !.pc = "settled"] }
   ELSE {})
    \cup { Caught(L) }

\* initializeSQLite 175-187 and initialize() 53-58, resumed after fs.mkdir:
\* the directory could not be made or new Database(path) threw (nothing
\* assigned yet); createSQLiteTables threw (handle and flags assigned); or
\* all went well.  better-sqlite3 is synchronous: 181-186 run in one turn.
InitializeSQLite(L) ==
  LET h == L.nH + 1
      opened == [L EXCEPT !.nH = h, !.hs[h] = "sqlite", !.db = h,
                          !.avail = TRUE, !.type = "sqlite",
                          !.ctx.opened = @ + 1]
  IN { Caught(L), Caught(opened),
       [opened EXCEPT !.mode = "sqlite", !.pc = "settled"] }

\* (variant: isAvailable is left as it was)
InitializeFallback_availableKept(L) ==
  { [L EXCEPT !.mode = "fallback", !.pc = "settled"],
    [L EXCEPT !.ctx.threw = "fallback", !.pc = "catchFallback"] }

\* initializeFallback 189-193 called from initialize() 65-71: fs.mkdir of the
\* flat-file directory succeeded (isAvailable = false, nothing else is
\* touched) or threw, which the catch of initialize() receives.
InitializeFallback(L) ==
  { [L EXCEPT !.avail = FALSE, !.mode = "fallback", !.pc = "settled"],
    [L EXCEPT !.ctx.threw = "fallback", !.pc = "catchFallback"] }

\* (variant: the catch block answers without calling initializeFallback)
InitializeCatch_noFallback(L) ==
  { [L EXCEPT !.mode = "fallback", !.err = TRUE, !.pc = "settled"] }

\* initialize() 73-83: initializeFallback awaited in the catch block; when
\* its fs.mkdir throws too, nothing catches it and initialize() rejects.
InitializeCatch(L) ==
  { [L EXCEPT !.avail = FALSE, !.mode = "fallback", !.err = TRUE,
              !.pc = "settled"],
    [L EXCEPT !.mode = "rejected", !.err = TRUE, !.pc = "settled"] }

\* The turn that resumes a suspended initialize().
Resume(L) ==
  CASE L.pc = "checkDuckDB" -> CheckDuckDB(L)
    [] L.pc = "initializeDuckDB" -> InitializeDuckDB(L)
    [] L.pc = "openDuckDB" -> OpenDuckDBCallback(L)
    [] L.pc = "createDuckDBTables" -> CreateDuckDBTables(L)
    [] L.pc = "initializeSQLite" -> InitializeSQLite(L)
    [] L.pc = "initializeFallback" -> InitializeFallback(L)
    [] L.pc = "catchFallback" -> InitializeCatch(L)
    [] OTHER -> {}

\* All the ways a call of initialize() can end when nothing else touches
\* the service meanwhile.
RECURSIVE RunToCompletion(_)
RunToCompletion(L) ==
  IF L.pc = "settled" THEN {L}
  ELSE UNION { RunToCompletion(L2) : L2 \in Resume(L) }

\* No initialize() settles, no operation is answered and no close() of the
\* registry resolves in this step.
NoServiceObs == lastInit' = NoInit /\ lastOp' = NoOp /\ lastRegClose' = NULL

\* ... and no data operation is called.
NoObs == NoServiceObs /\ UNCHANGED dataVars

\* What an initialize() call on service s that settled as L returned and
\* left behind.
InitResult(s, L) ==
  [svc |-> s, mode |-> L.mode, err |-> L.err,
   duck |-> L.ctx.duck, sqlite |-> L.ctx.sqlite, threw |-> L.ctx.threw,
   wasReady |-> L.ctx.wasReady,
   avail |-> L.avail, type |-> L.type, dbv |-> L.db,
   db0 |-> L.ctx.db0, avail0 |-> L.ctx.avail0, type0 |-> L.ctx.type0,
   mode0 |-> L.ctx.mode0, opened |-> L.ctx.opened]

\* The turn of initialize() on service s ended as L: the service's fields
\* and the handles are written back, and when the call settled its awaiters
\* run.
Apply(s, L) ==
  /\ db' = [db EXCEPT ![s] = L.db]
  /\ isAvailable' = [isAvailable EXCEPT ![s] = L.avail]
  /\ dbType' = [dbType EXCEPT ![s] = L.type]
  /\ nHandles' = L.nH
  /\ hstate' = L.hs
  /\ IF L.pc = "settled"
     THEN /\ ipc' = [ipc EXCEPT ![s] = "idle"]
          /\ ictx' = [ictx EXCEPT ![s] = NoCtx]
          /\ selected' = [selected EXCEPT ![s] =
                            IF L.mode = "rejected" THEN selected[s]
                            ELSE L.mode]
          /\ closedSince' = [closedSince EXCEPT ![s] = FALSE]
          /\ lastInit' = InitResult(s, L)
          /\ lastOp' = NoOp
          /\ lastRegClose' = NULL
          /\ UNCHANGED dataVars
          /\ UNCHANGED registryClosed
          /\ RegistryOnSettled(s, L.mode # "rejected")
     ELSE /\ ipc' = [ipc EXCEPT ![s] = L.pc]
          /\ ictx' = [ictx EXCEPT ![s] = L.ctx]
          /\ NoObs
          /\ UNCHANGED <<regVars, callers, selected, closedSince,
                         registryClosed>>
  /\ UNCHANGED <<nServices, nInits, born, closing>>

\* A suspended initialize() of service s is resumed.
CheckDuckDBDone(s) ==
  /\ ipc[s] = "checkDuckDB"
  /\ \E L \in CheckDuckDB(Local(s)) : Apply(s, L)

InitializeDuckDBOpen(s) ==
  /\ ipc[s] = "initializeDuckDB"
  /\ \E L \in InitializeDuckDB(Local(s)) : Apply(s, L)

OpenDuckDBCallbackDone(s) ==
  /\ ipc[s] = "openDuckDB"
  /\ \E L \in OpenDuckDBCallback(Local(s)) : Apply(s, L)

CreateDuckDBTablesDone(s) ==
  /\ ipc[s] = "createDuckDBTables"
  /\ \E L \in CreateDuckDBTables(Local(s)) : Apply(s, L)

InitializeSQLiteDone(s) ==
  /\ ipc[s] = "initializeSQLite"
  /\ \E L \in InitializeSQLite(Local(s)) : Apply(s, L)

InitializeFallbackDone(s) ==
  /\ ipc[s] = "initializeFallback"
  /\ \E L \in InitializeFallback(Local(s)) : Apply(s, L)

CatchFallbackDone(s) ==
  /\ ipc[s] = "catchFallback"
  /\ \E L \in InitializeCatch(Local(s)) : Apply(s, L)

\* ----------------------------------------------------------- operations
\* insertData 271-291, queryData 380-395, getStats 585-600, updateData
\* 760-776, deleteData 834-849 all choose the implementation the same way.
Dispatch(avail, type) ==
  IF ~avail THEN "fallback"
  ELSE IF type = "sqlite" THEN "sqlite"
  ELSE IF type = "duckdb" THEN "duckdb"
  ELSE "undefined"

\* Which backend answers an operation on a service with these fields; the
\* two engines throw (the call rejects) on a handle that is null or not a
\* live connection.  A handle's state says which database file it is a live
\* connection to ("duckdb", "sqlite"); "opening" is new duckdb.Database
\* before its callback, "closed" a handle that was closed or failed to open.
Serve(avail, type, dbv, hs) ==
  LET d == Dispatch(avail, type) IN
  IF d \in {"sqlite", "duckdb"}
     /\ (dbv = NULL \/ hs[dbv] \notin {"duckdb", "sqlite"})
  THEN "reject"
  ELSE d

ServedBy(s) == Serve(isAvailable[s], dbType[s], db[s], hstate)

\* ---------------------------------------------------------------- callers
\* The first turn of initialize() on service s.
InitializeStart(s) ==
  /\ CanStart
  /\ nInits' = nInits + 1
  /\ \E L \in InitializeBegin([Local(s) EXCEPT !.ctx = Snapshot(s)]) :
       /\ ipc' = [ipc EXCEPT ![s] = L.pc]
       /\ ictx' = [ictx EXCEPT ![s] = L.ctx]

\* getInstance() 12-27 with initializeInstance 34-39, up to the first await.
GetInstance ==
  /\ BagIn(IdleCaller, callers)
  /\ LET path == GetInstancePath(instance, isInitializing) IN
     CASE path = "cached" ->
            /\ callers' = Move(IdleCaller, Caller("holding", instance, NULL))
            /\ UNCHANGED <<regVars, svcVars>>
       [] path = "wait" ->
            /\ callers' = Move(IdleCaller,
                               Caller("waiting", NULL, initializationPromise))
            /\ UNCHANGED <<regVars, svcVars>>
       [] path = "init" ->
            /\ CanStart
            /\ LET s == nServices + 1 IN
               /\ nServices' = s
               /\ born' = [born EXCEPT ![s] = "registry"]
               /\ instance' = s
               /\ initializationPromise' = s
               /\ isInitializing' = TRUE
               /\ InitializeStart(s)
               /\ callers' = Move(IdleCaller, Caller("initiating", NULL, s))
            /\ UNCHANGED <<db, isAvailable, dbType, closing>>
  /\ NoObs
  /\ UNCHANGED <<hVars, histVars>>

\* A client is done with the reference it got (or with the rejection) and
\* may call getInstance() again.
Release(k) ==
  /\ k.pc \in {"holding", "failed"}
  /\ callers' = Move(k, IdleCaller)
  /\ NoObs
  /\ UNCHANGED <<regVars, svcVars, hVars, histVars>>

\* ReportsService.generateQualityReport 14-18 (also 302-304, 372-374):
\* a new service of its own on the same configuration, initialize(), then
\* queryData; the service is dropped without close().  Nothing but the
\* report touches that service, so the report takes one step here, and what
\* stays of it are the handles it opened.
Constructed ==
  [pc |-> "idle", ctx |-> NoCtx, db |-> NULL, avail |-> FALSE,
   type |-> "null", nH |-> nHandles, hs |-> hstate,
   mode |-> "none", err |-> FALSE]

GenerateQualityReport ==
  /\ CanStart
  /\ nInits' = nInits + 1
  /\ \E L0 \in InitializeBegin(Constructed) :
       \E L \in RunToCompletion(L0) :
         /\ nHandles' = L.nH
         /\ hstate' = L.hs
  /\ NoObs
  /\ UNCHANGED <<regVars, nServices, born, db, isAvailable, dbType, ipc, ictx,
                 closing, callers, histVars>>

\* jest runs the tests of one file one after the other and every test awaits
\* its calls: the test-suite makes a call only when none is in flight.
NoCallInFlight ==
  \A s \in Services : ipc[s] = "idle" /\ closing[s] = NULL

\* tests/duckdb.test.js 11-22 (beforeAll): new DuckDBService(testConfig).
NewTestService ==
  /\ NoCallInFlight
  /\ nServices < MaxInits
  /\ nServices' = nServices + 1
  /\ born' = [born EXCEPT ![nServices + 1] = "test"]
  /\ NoObs
  /\ UNCHANGED <<regVars, nInits, db, isAvailable, dbType, ipc, ictx, closing,
                 hVars, callers, histVars>>

\* tests/duckdb.test.js 49, 96-98 (beforeEach), 203, 269, 338: initialize()
\* on the service under test, again and again, with no other call on it in
\* flight.
PrivateInitialize(s) ==
  /\ born[s] = "test"
  /\ NoCallInFlight
  /\ InitializeStart(s)
  /\ NoObs
  /\ UNCHANGED <<regVars, nServices, born, db, isAvailable, dbType, closing,
                 hVars, callers, histVars>>

\* ------------------------------------------------------------ close()
\* close() 728-754 takes the engine's asynchronous path (731-742) ...
ClosePending(s) == db[s] # NULL /\ dbType[s] = "duckdb"

\* ... or the synchronous one (743-751); with no handle, or with a handle
\* and dbType null, it does nothing.
CloseSqlite(s) == db[s] # NULL /\ dbType[s] = "sqlite"

\* (variant: isAvailable is not reset)
ClosedFields_availableKept == [db |-> NULL, avail |-> TRUE]

\* close() 737-738 and 746-747: what a completed close leaves in this.db
\* and this.isAvailable (this.dbType is not touched).
ClosedFields == [db |-> NULL, avail |-> FALSE]

\* The first turn of close() on service s.
CloseSync(s) ==
  /\ closing' = IF ClosePending(s)
                THEN [closing EXCEPT ![s] = db[s]] ELSE closing
  /\ IF CloseSqlite(s)
     THEN /\ hstate' = [hstate EXCEPT ![db[s]] = "closed"]
          /\ db' = [db EXCEPT ![s] = ClosedFields.db]
          /\ isAvailable' = [isAvailable EXCEPT ![s] = ClosedFields.avail]
     ELSE UNCHANGED <<hstate, db, isAvailable>>
  /\ closedSince' = IF ClosePending(s)
                    THEN closedSince
                    ELSE [closedSince EXCEPT ![s] = TRUE]
  /\ UNCHANGED <<nServices, nInits, born, dbType, ipc, ictx, nHandles>>

\* PipelineService.processData 526, PipelineService.close 403-406,
\* DataService.close (unnamed/part_003 480-484): a client closes the
\* service it got from the registry, and is done with it.
DirectClose(k) ==
  /\ k.pc = "holding"
  /\ k.ref # NULL
  /\ LET s == k.ref IN
     /\ CloseSync(s)
     /\ callers' = Move(k, IF ClosePending(s)
                           THEN Caller("closing", NULL, s) ELSE IdleCaller)
  /\ NoObs
  /\ UNCHANGED <<regVars, selected, registryClosed>>

\* (variant: the cached instance is kept)
ClearedRegistry_instanceKept(inst) ==
  [instance |-> inst, initializationPromise |-> NULL, isInitializing |-> FALSE]

\* DuckDBSingleton.close 58-60: the three fields after the awaited close().
ClearedRegistry(inst) ==
  [instance |-> NULL, initializationPromise |-> NULL, isInitializing |-> FALSE]

\* DuckDBSingleton.close 55-62: closes the cached instance and, once that
\* close() has resolved, clears the three fields.  lastRegClose is the
\* service that was in the cache when a close() of the registry resolved.
RegistryClose(k) ==
  /\ k.pc \in {"idle", "holding"}
  /\ instance # NULL
  /\ LET s == instance IN
     /\ CloseSync(s)
     /\ IF ClosePending(s)
        THEN /\ callers' = Move(k, Caller("regClosing", NULL, s))
             /\ lastRegClose' = NULL
             /\ UNCHANGED regVars
        ELSE /\ callers' = Move(k, IdleCaller)
             /\ lastRegClose' = s
             /\ instance' = ClearedRegistry(instance).instance
             /\ initializationPromise' =
                  ClearedRegistry(instance).initializationPromise
             /\ isInitializing' = ClearedRegistry(instance).isInitializing
  /\ registryClosed' = TRUE
  /\ lastInit' = NoInit
  /\ lastOp' = NoOp
  /\ UNCHANGED <<selected, dataVars>>

\* tests/duckdb.test.js 34-38, test-complete-integration.js 170: close() on
\* a service of one's own, with no other call on it in flight.
PrivateClose(s) ==
  /\ born[s] = "test"
  /\ NoCallInFlight
  /\ CloseSync(s)
  /\ NoObs
  /\ UNCHANGED <<regVars, callers, selected, registryClosed>>

\* close() 732-741: the callback of the engine's close, which comes after
\* the callback of the open of the same handle; then the callers awaiting
\* this close() resume (DuckDBSingleton.close 58-60 for the registry's).
CloseCallback(s) ==
  /\ closing[s] # NULL
  /\ hstate[closing[s]] # "opening"
  /\ hstate' = [hstate EXCEPT ![closing[s]] = "closed"]
  /\ db' = [db EXCEPT ![s] = ClosedFields.db]
  /\ isAvailable' = [isAvailable EXCEPT ![s] = ClosedFields.avail]
  /\ closing' = [closing EXCEPT ![s] = NULL]
  /\ closedSince' = [closedSince EXCEPT ![s] = TRUE]
  /\ LET resumed == {k \in Callers :
                       k.pc \in {"closing", "regClosing"} /\ k.awaiting = s}
         reg == {k \in resumed : k.pc = "regClosing"}
         After(k) == IF k \in resumed THEN IdleCaller ELSE k
     IN /\ callers' = BagOfAll(After, callers)
        /\ IF reg # {}
           THEN /\ lastRegClose' = s
                /\ instance' = ClearedRegistry(instance).instance
                /\ initializationPromise' =
                     ClearedRegistry(instance).initializationPromise
                /\ isInitializing' = ClearedRegistry(instance).isInitializing
           ELSE /\ lastRegClose' = NULL
                /\ UNCHANGED regVars
  /\ lastInit' = NoInit
  /\ lastOp' = NoOp
  /\ UNCHANGED dataVars
  /\ UNCHANGED <<nServices, nInits, born, dbType, ipc, ictx, nHandles,
                 selected, registryClosed>>

\* One of the five operations is called on service s and answered: by
\* which backend, after which initialize() result, and whether a close()
\* completed since.
Answered(s) ==
  /\ lastOp' = [svc |-> s, source |-> ServedBy(s),
                sel |-> selected[s], closed |-> closedSince[s]]
  /\ lastInit' = NoInit
  /\ lastRegClose' = NULL
  /\ UNCHANGED <<regVars, svcVars, hVars, callers, histVars, dataVars>>

\* A client that holds service s calls an operation on it (PipelineService
\* 77-83, 453-520; DataService).
Operation(s) ==
  /\ \E k \in Callers : k.pc = "holding" /\ k.ref = s
  /\ Answered(s)

\* tests/duckdb.test.js 100-340: the test-suite calls an operation on the
\* service under test.
PrivateOperation(s) ==
  /\ born[s] = "test"
  /\ NoCallInFlight
  /\ Answered(s)

\* ------------------------------------------------------------------ data
\* JavaScript values of a record's attributes: a string attribute that is
\* not there is Absent (undefined), a numeric one Undef; SQL NULL, which the
\* engines return as null, is NullS / NullN.  Timestamps are ISO-8601
\* strings of one format, kept as the millisecond they name.
Absent == "undefined"
NullS == "null"
NullN == -1
Undef == -2

\* x || d on a number and on a string.
OrN(x, d) == IF x \in {0, NullN, Undef} THEN d ELSE x
OrS(x, d) == IF x \in {"", NullS, Absent} THEN d ELSE x

\* A record handed to insertData: location is record.location?.field, field
\* the flat attribute record.field.
Reading(sid, ts, type, v, flat, loc, batt, q) ==
  [sensor_id |-> sid, timestamp |-> ts, reading_type |-> type, value |-> v,
   field |-> flat, location |-> loc, battery_level |-> batt,
   quality_score |-> q]

\* The records of a run: the shape the test-suite inserts (a location, no
\* flat field), a reading of zero from a sensor with an empty battery and
\* the flat field attribute, a reading with no quality_score.
Readings ==
  { Reading("S1", 1, "temperature", 25, Absent, "north", 88, 95),
    Reading("S1", 2, "humidity", 0, "north", Absent, 0, 0),
    Reading("S2", 2, "temperature", 7, Absent, "south", 50, Undef) }

\* The field a reading is in.
FieldOf(r) == IF r.field # Absent THEN r.field ELSE r.location

Batches == UNION { [1..n -> Readings] : n \in 0..MaxBatch }

\* The argument of insertData: one record, or an array of records.
InsertInputs ==
  [kind : {"scalar"}, record : Readings]
    \cup [kind : {"array"}, records : Batches]

\* (variant: a record that is not in an array is dropped)
AsArray_scalarDropped(x) ==
  IF x.kind = "array" THEN x.records ELSE <<>>

\* insertData 273-275.
AsArray(x) ==
  IF x.kind = "array" THEN x.records ELSE <<x.record>>

\* insertDataDuckDB 337-351: the parameters of the INSERT for record r, and
\* the id the sequence gives the row; t is the time of the call.  The row
\* keeps the record it was made from (reading), which no code reads.
DuckDBRow(r, id, t) ==
  [id |-> id,
   sensor_id |-> OrS(r.sensor_id, NullS),
   timestamp |-> OrN(r.timestamp, t),
   reading_type |-> OrS(r.reading_type, NullS),
   value |-> OrN(r.value, NullN),
   field |-> OrS(r.location, OrS(r.field, NullS)),
   battery_level |-> OrN(r.battery_level, NullN),
   quality_score |-> OrN(r.quality_score, 100),
   reading |-> r]

\* A value bound to a statement parameter: undefined is stored as NULL.
BindS(x) == IF x = Absent THEN NullS ELSE x
BindN(x) == IF x = Undef THEN NullN ELSE x

\* insertDataSQLite 305-319.
SQLiteRow(r, id) ==
  [id |-> id,
   sensor_id |-> BindS(r.sensor_id),
   timestamp |-> BindN(r.timestamp),
   reading_type |-> BindS(r.reading_type),
   value |-> BindN(r.value),
   field |-> BindS(r.location),
   battery_level |-> BindN(r.battery_level),
   quality_score |-> OrN(r.quality_score, 100),
   reading |-> r]

RowOf(backend, r, id, t) ==
  IF backend = "duckdb" THEN DuckDBRow(r, id, t) ELSE SQLiteRow(r, id)

\* The service under test is service 1.  The test-suite awaits every call
\* and looks at what it returned before it makes the next one, and it calls
\* the data operations once initialize() resolved.
UnderTest == 1

Usable ==
  /\ lastData = NoResult
  /\ nServices >= UnderTest
  /\ ipc[UnderTest] = "idle"
  /\ selected[UnderTest] # "none"
  /\ ServedBy(UnderTest) \in {"duckdb", "sqlite", "fallback"}

\* tests/duckdb.test.js 11-22 and 96-98: new DuckDBService(testConfig) and
\* await initialize(), on empty storage; nothing else runs meanwhile.
SetUp ==
  /\ nServices = 0
  /\ nServices' = UnderTest
  /\ nInits' = nInits + 1
  /\ born' = [born EXCEPT ![UnderTest] = "test"]
  /\ \E L0 \in InitializeBegin(Constructed) :
       \E L \in RunToCompletion(L0) :
         /\ db' = [db EXCEPT ![UnderTest] = L.db]
         /\ isAvailable' = [isAvailable EXCEPT ![UnderTest] = L.avail]
         /\ dbType' = [dbType EXCEPT ![UnderTest] = L.type]
         /\ nHandles' = L.nH
         /\ hstate' = L.hs
         /\ selected' = [selected EXCEPT ![UnderTest] =
                           IF L.mode = "rejected" THEN "none" ELSE L.mode]
  /\ NoObs
  /\ UNCHANGED <<regVars, ipc, ictx, closing, callers, closedSince,
                 registryClosed>>

\* The data operations leave the registry and the service's fields alone.
ServiceFrame ==
  /\ NoServiceObs
  /\ UNCHANGED <<regVars, svcVars, hVars, callers, histVars>>

\* ... and are awaited: none is left in flight.
DataFrame == ServiceFrame /\ UNCHANGED extVars

\* The clock moves on by a millisecond.
Tick ==
  /\ lastData = NoResult
  /\ now < MaxClock
  /\ now' = now + 1
  /\ DataFrame
  /\ UNCHANGED <<table, nextId, files, lastData, nSupplied, nResolved,
                 insertRejected>>

\* tests/duckdb.test.js 103-105 and alike: the test has looked at the
\* result of its call.
Expect ==
  /\ lastData # NoResult
  /\ lastData' = NoResult
  /\ DataFrame
  /\ UNCHANGED <<storeVars, nSupplied, nResolved, insertRejected>>

\* The rows the INSERTs of the first k records of recs add.
NewRows(backend, recs, k) ==
  [i \in 1..k |-> RowOf(backend, recs[i], nextId + i - 1, now)]

\* insertData 271-291 with argument x.  On an engine (293-324, 326-359) the
\* records are inserted one statement after the other; a statement that
\* throws (the j-th; 0: none does) ends the call, which rejects, and the
\* rows before it stay (threw: a statement or a file operation threw).  On
\* flat files (361-378) the array is written to
\* the file named by the time of the call, replacing a file of that name;
\* when mkdir or writeFile throws the call rejects.
InsertData(x) ==
  LET recs == AsArray(x)
      d == ServedBy(UnderTest)
  IN
  /\ Usable
  /\ nSupplied + Len(recs) <= MaxRecords
  /\ nSupplied' = nSupplied + Len(recs)
  /\ \E j \in 0..(IF d = "fallback" THEN 1 ELSE Len(recs)) :
       /\ IF d = "fallback"
          THEN /\ files' = IF j = 0
                           THEN [files EXCEPT ![now] =
                                   [exists |-> TRUE, data |-> recs]]
                           ELSE files
               /\ UNCHANGED <<table, nextId>>
          ELSE LET k == IF j = 0 THEN Len(recs) ELSE j - 1 IN
               /\ table' = table \o NewRows(d, recs, k)
               /\ nextId' = nextId + k
               /\ UNCHANGED files
       /\ IF j = 0
          THEN /\ lastData' = [op |-> "insert", source |-> d,
                               outcome |-> "resolved", arg |-> x,
                               threw |-> FALSE, success |-> TRUE,
                               recordCount |-> Len(recs), filepath |-> now]
               /\ nResolved' = nResolved + Len(recs)
               /\ UNCHANGED insertRejected
          ELSE /\ lastData' = [op |-> "insert", source |-> d,
                               outcome |-> "rejected", arg |-> x,
                               threw |-> TRUE]
               /\ insertRejected' = TRUE
               /\ UNCHANGED nResolved
  /\ DataFrame
  /\ UNCHANGED now

\* if (x) on a string and on a number.
TruthyS(x) == x \notin {"", NullS, Absent}
TruthyN(x) == x \notin {0, NullN, Undef}

\* The filters of queryData; limit is absent or a number from 0 on.
MaxLimit == 1

Filters ==
  [sensor_id : {Absent, "S1"}, reading_type : {Absent, "temperature"},
   startDate : {Undef, 2}, endDate : {Undef, 1}, field : {Absent, "north"},
   limit : {Undef} \cup 0..MaxLimit]

NoFilters ==
  [sensor_id |-> Absent, reading_type |-> Absent, startDate |-> Undef,
   endDate |-> Undef, field |-> Absent, limit |-> Undef]

\* queryDataDuckDB 398-424 and queryDataSQLite 452-478: the WHERE clause.  A
\* comparison with NULL is not true.
Selected(row, f) ==
  /\ TruthyS(f.sensor_id) => row.sensor_id = f.sensor_id
  /\ TruthyS(f.reading_type) => row.reading_type = f.reading_type
  /\ TruthyN(f.startDate) =>
       row.timestamp # NullN /\ row.timestamp >= f.startDate
  /\ TruthyN(f.endDate) =>
       row.timestamp # NullN /\ row.timestamp <= f.endDate
  /\ TruthyS(f.field) => row.field = f.field

\* ORDER BY timestamp DESC (426, 480): the orders the engine can return the
\* rows of S in; rows of one timestamp come in any order.
RECURSIVE Orderings(_)
Orderings(S) ==
  IF S = {} THEN {<<>>}
  ELSE LET tops == {r \in S : \A q \in S : q.timestamp <= r.timestamp}
       IN UNION { { <<r>> \o rest : rest \in Orderings(S \ {r}) } :
                  r \in tops }

\* if (filters.limit) ... LIMIT (428-431, 482-485), slice(0, limit) (526-528).
Limited(seq, limit) ==
  IF TruthyN(limit)
  THEN SubSeq(seq, 1, IF limit < Len(seq) THEN limit ELSE Len(seq))
  ELSE seq

Rows == {table[i] : i \in 1..Len(table)}

\* The answers of an engine to queryData(f).  Ids and counts are far below
\* 2^53, where Number() of a bigint (436-446, 614-624) is exact.
QueryEngine(f) ==
  { Limited(o, f.limit) : o \in Orderings({r \in Rows : Selected(r, f)}) }

\* queryDataFallback 497-510: the arrays of all the files, in the order of
\* the file names.
RECURSIVE AllData(_)
AllData(c) ==
  IF c > MaxClock THEN <<>>
  ELSE (IF files[c].exists THEN files[c].data ELSE <<>>) \o AllData(c + 1)

\* queryDataFallback 513-520: the predicate on a record of a file.
Kept(record, f) ==
  /\ ~(TruthyS(f.sensor_id) /\ record.sensor_id # f.sensor_id)
  /\ ~(TruthyS(f.reading_type) /\ record.reading_type # f.reading_type)
  /\ ~(TruthyS(f.field) /\ record.location # f.field)
  /\ ~(TruthyN(f.startDate) /\ record.timestamp < f.startDate)
  /\ ~(TruthyN(f.endDate) /\ record.timestamp > f.endDate)

\* queryDataFallback 523: Array.prototype.sort with b.timestamp -
\* a.timestamp, which is stable.
RECURSIVE InsertDesc(_, _)
InsertDesc(x, s) ==
  IF s = <<>> THEN <<x>>
  ELSE IF Head(s).timestamp <= x.timestamp THEN <<x>> \o s
  ELSE <<Head(s)>> \o InsertDesc(x, Tail(s))

RECURSIVE SortDesc(_)
SortDesc(s) ==
  IF s = <<>> THEN <<>> ELSE InsertDesc(Head(s), SortDesc(Tail(s)))

QueryFallback(f) ==
  Limited(SortDesc(SelectSeq(AllData(1), LAMBDA r : Kept(r, f))), f.limit)

\* -- the JavaScript types of what the analytical engine hands back
\* createDuckDBTables 201-217: the SQL types of the columns of sensor_data.
ColumnType ==
  [id |-> "BIGINT", sensor_id |-> "VARCHAR", timestamp |-> "TIMESTAMP",
   reading_type |-> "VARCHAR", value |-> "DOUBLE", unit |-> "VARCHAR",
   field |-> "VARCHAR", latitude |-> "DOUBLE", longitude |-> "DOUBLE",
   battery_level |-> "INTEGER", signal_strength |-> "INTEGER",
   data_quality |-> "VARCHAR", processed_timestamp |-> "TIMESTAMP",
   quality_score |-> "INTEGER", created_at |-> "TIMESTAMP"]

\* allDuckDBQuery 573-583: the typeof of the value db.all puts in a row for a
\* column of an SQL type; a 64-bit integer arrives as a bigint, which is
\* what the tests of 439 and 617 look for.
DriverType(sqlType) ==
  CASE sqlType = "BIGINT" -> "bigint"
    [] sqlType \in {"INTEGER", "DOUBLE"} -> "number"
    [] sqlType = "VARCHAR" -> "string"
    [] OTHER -> "object"

\* 439-440 and 617-618: Number(value) where typeof value === 'bigint'.
Sanitized(jsType) == IF jsType = "bigint" THEN "number" ELSE jsType

\* The types of the values of the rows db.all gives for columns of the SQL
\* types sqlTypes: none when there is no row.
RawTypes(sqlTypes, nRows) ==
  IF nRows = 0 THEN {} ELSE {DriverType(t) : t \in sqlTypes}

\* queryDataDuckDB 433-446: SELECT *, every value of every row sanitized.
QueryTypes(res) ==
  { Sanitized(t) :
      t \in RawTypes({ColumnType[c] : c \in DOMAIN ColumnType}, Len(res)) }

\* What JSON.parse (502) and better-sqlite3 (489) give: numbers and
\* strings.
PlainTypes(n) == IF n = 0 THEN {} ELSE {"number", "string"}

\* getStatsDuckDB 626-632: total is Number(COUNT(*)) or 0, byType the
\* sanitized rows of reading_type and COUNT(*), latestTimestamp the value
\* of MAX(timestamp) as db.all gave it.
StatsTypes(nGroups) ==
  {"number"}
    \cup { Sanitized(t) : t \in RawTypes({"VARCHAR", "BIGINT"}, nGroups) }
    \cup RawTypes({"TIMESTAMP"}, 1)

\* The files readParquet is pointed at: none at that path, a file without
\* a 64-bit column, and an export of sensor_data (whose id is BIGINT) with
\* no row and with one.
ParquetFiles ==
  { [exists |-> FALSE, schema |-> {}, rows |-> 0],
    [exists |-> TRUE, schema |-> {"VARCHAR", "DOUBLE"}, rows |-> 1],
    [exists |-> TRUE, schema |-> {"BIGINT", "VARCHAR", "DOUBLE"}, rows |-> 0],
    [exists |-> TRUE, schema |-> {"BIGINT", "VARCHAR", "DOUBLE"}, rows |-> 1] }

\* readParquet 684-726 on file p: it throws unless the service runs on
\* DuckDB, and when read_parquet fails; otherwise data is the rows as
\* db.all gave them (706, 715).
ReadParquet(p) ==
  /\ Usable
  /\ lastData' =
       IF ~isAvailable[UnderTest] \/ dbType[UnderTest] # "duckdb"
       THEN [op |-> "parquet", source |-> ServedBy(UnderTest),
             outcome |-> "threw", file |-> p, types |-> {}]
       ELSE IF ~p.exists
       THEN [op |-> "parquet", source |-> "duckdb-parquet",
             outcome |-> "threw", file |-> p, types |-> {}]
       ELSE [op |-> "parquet", source |-> "duckdb-parquet",
             outcome |-> "resolved", file |-> p,
             types |-> RawTypes(p.schema, p.rows)]
  /\ DataFrame
  /\ UNCHANGED <<storeVars, nSupplied, nResolved, insertRejected>>

\* queryData 380-395 with filters f.
QueryData(f) ==
  LET d == ServedBy(UnderTest) IN
  /\ Usable
  /\ \E res \in (IF d = "fallback" THEN {QueryFallback(f)}
                 ELSE QueryEngine(f)) :
       lastData' = [op |-> "query", source |-> d, outcome |-> "resolved",
                    filters |-> f, success |-> TRUE, data |-> res,
                    types |-> IF d = "duckdb" THEN QueryTypes(res)
                              ELSE PlainTypes(Len(res))]
  /\ DataFrame
  /\ UNCHANGED <<storeVars, nSupplied, nResolved, insertRejected>>

\* -- getStats
Types(recs) == {recs[i].reading_type : i \in 1..Len(recs)}

\* SELECT reading_type, COUNT(*) ... GROUP BY reading_type (604, 637), and
\* the counting loop of getStatsFallback 664-666: the pairs of a type and
\* the number of records of that type.
ByType(recs) ==
  { [reading_type |-> t,
     count |-> Cardinality({i \in 1..Len(recs) : recs[i].reading_type = t})] :
    t \in Types(recs) }

\* SELECT MAX(timestamp) (605, 638): NULL over no rows.
MaxTimestamp(recs) ==
  IF recs = <<>> THEN NullN
  ELSE LET ts == {recs[i].timestamp : i \in 1..Len(recs)}
       IN CHOOSE m \in ts : \A t \in ts : t <= m

\* getStatsFallback 661, 668-670: the loop over the records.
RECURSIVE Latest(_, _)
Latest(recs, acc) ==
  IF recs = <<>> THEN acc
  ELSE Latest(Tail(recs),
              IF ~TruthyN(acc) \/ Head(recs).timestamp > acc
              THEN Head(recs).timestamp ELSE acc)

\* getStatsFallback 653-677: byType is an object keyed by the type.
StatsFallback ==
  LET data == QueryFallback(NoFilters) IN
  [total |-> Len(data),
   byType |-> [shape |-> "object", counts |-> ByType(data)],
   latestTimestamp |-> Latest(data, NullN)]

\* getStatsDuckDB 602-633 and getStatsSQLite 635-651: byType is the array of
\* the rows of the GROUP BY.
StatsEngine ==
  [total |-> OrN(Len(table), 0),
   byType |-> [shape |-> "array", counts |-> ByType(table)],
   latestTimestamp |-> MaxTimestamp(table)]

\* getStats 585-600.
GetStats ==
  LET d == ServedBy(UnderTest) IN
  /\ Usable
  /\ lastData' = [op |-> "stats", source |-> d, outcome |-> "resolved",
                  success |-> TRUE,
                  stats |-> IF d = "fallback" THEN StatsFallback
                            ELSE StatsEngine,
                  types |-> IF d = "duckdb"
                            THEN StatsTypes(Cardinality(ByType(table)))
                            ELSE PlainTypes(1)]
  /\ DataFrame
  /\ UNCHANGED <<storeVars, nSupplied, nResolved, insertRejected>>

\* -- updateData, deleteData
\* The ids a caller passes: those the sequence gave out in the run and one
\* it never gives.
Ids == 1..(MaxRecords + 1)

\* The columns of sensor_data that the rows of the model carry (201-217).
Columns ==
  {"id", "sensor_id", "timestamp", "reading_type", "value", "field",
   "battery_level", "quality_score"}

\* The updates argument, as pairs of a key and a value: no key, a column,
\* a key that is no column.
Updates == { {}, {<<"value", 30>>}, {<<"colour", 1>>} }

\* An updates argument whose key is the id column; the value is one that
\* neither sequence gives out (both start at 1).
IdUpdates == { {<<"id", 0>>} }

\* UPDATE sensor_data SET k1 = ?, ... (793-794, 809-810) is a statement the
\* engine accepts when there is a key and every key is a column.
SetClauseOK(u) == u # {} /\ \A p \in u : p[1] \in Columns

\* The row after the UPDATE; the record it was made from follows, so that
\* reading is the record as update left it.
SetRow(row, u) ==
  IF \E p \in u : p[1] = "value"
  THEN LET v == (CHOOSE p \in u : p[1] = "value")[2]
       IN [row EXCEPT !.value = v, !.reading.value = v]
  ELSE IF \E p \in u : p[1] = "id"
  THEN [row EXCEPT !.id = (CHOOSE p \in u : p[1] = "id")[2]]
  ELSE row

Matching(id) == {i \in 1..Len(table) : table[i].id = id}

Updated(id, u) ==
  [i \in 1..Len(table) |->
     IF table[i].id = id THEN SetRow(table[i], u) ELSE table[i]]

Deleted(id) == SelectSeq(table, LAMBDA row : row.id # id)

\* id is PRIMARY KEY (202, 249): the engine refuses the UPDATE that would
\* leave two rows with one id.
KeyOK(id, u) ==
  \A i, j \in 1..Len(table) :
    Updated(id, u)[i].id = Updated(id, u)[j].id => i = j

\* (variant: the flat files report a successful update of no record)
UpdateDataFallback_success(id) ==
  [success |-> TRUE, updated |-> 0, id |-> id]

\* updateDataFallback 823-832.
UpdateDataFallback(id) ==
  [success |-> FALSE, message |-> "Update not supported in fallback mode",
   id |-> id]

\* deleteDataFallback 887-894.
DeleteDataFallback(id) ==
  [success |-> FALSE, message |-> "Delete not supported in fallback mode",
   id |-> id]

\* updateDataDuckDB 780-782, deleteDataDuckDB 853-855: the existence check.
Exists(id) == Cardinality(Matching(id)) > 0

\* What updateData and deleteData leave in lastData: matched says whether
\* a stored record had the id when the call was made (the records of the
\* flat files have none), changed whether the stored data differ from those
\* before the call.
Outcome(op, d, id, res) ==
  [op |-> op, source |-> d, outcome |-> "resolved", arg |-> id,
   result |-> res,
   matched |-> (d # "fallback" /\ Matching(id) # {}),
   changed |-> (table' # table \/ files' # files)]

Thrown(op, d, id) ==
  [op |-> op, source |-> d, outcome |-> "rejected", arg |-> id,
   matched |-> (d # "fallback" /\ Matching(id) # {}),
   changed |-> (table' # table \/ files' # files)]

\* updateData 760-776 with updateDataDuckDB 778-805 (existence check, then
\* the UPDATE; result.changes || 1), updateDataSQLite 807-821 (the UPDATE,
\* which is prepared whatever the id) and updateDataFallback.
UpdateData(id, u) ==
  LET d == ServedBy(UnderTest) IN
  /\ Usable
  /\ UNCHANGED <<nextId, files, now, nSupplied, nResolved, insertRejected>>
  /\ CASE d = "fallback" ->
            /\ table' = table
            /\ lastData' = Outcome("update", d, id, UpdateDataFallback(id))
       [] d = "duckdb" /\ ~Exists(id) ->
            /\ table' = table
            /\ lastData' = Outcome("update", d, id,
                              [success |-> TRUE, updated |-> 0, id |-> id])
       [] d = "duckdb" /\ Exists(id) /\ SetClauseOK(u) /\ KeyOK(id, u) ->
            /\ table' = Updated(id, u)
            /\ lastData' = Outcome("update", d, id,
                              [success |-> TRUE,
                               updated |-> OrN(Cardinality(Matching(id)), 1),
                               id |-> id])
       [] d = "sqlite" /\ SetClauseOK(u) /\ KeyOK(id, u) ->
            /\ table' = Updated(id, u)
            /\ lastData' = Outcome("update", d, id,
                              [success |-> TRUE,
                               updated |-> Cardinality(Matching(id)),
                               id |-> id])
       [] OTHER ->
            /\ table' = table
            /\ lastData' = Thrown("update", d, id)
  /\ DataFrame

\* deleteData 834-849 with deleteDataDuckDB 851-873, deleteDataSQLite
\* 875-885 and deleteDataFallback.
DeleteData(id) ==
  LET d == ServedBy(UnderTest) IN
  /\ Usable
  /\ UNCHANGED <<nextId, files, now, nSupplied, nResolved, insertRejected>>
  /\ CASE d = "fallback" ->
            /\ table' = table
            /\ lastData' = Outcome("delete", d, id, DeleteDataFallback(id))
       [] d = "duckdb" /\ ~Exists(id) ->
            /\ table' = table
            /\ lastData' = Outcome("delete", d, id,
                              [success |-> TRUE, deleted |-> 0, id |-> id])
       [] d = "duckdb" /\ Exists(id) ->
            /\ table' = Deleted(id)
            /\ lastData' = Outcome("delete", d, id,
                              [success |-> TRUE,
                               deleted |-> OrN(Cardinality(Matching(id)), 1),
                               id |-> id])
       [] OTHER ->
            /\ table' = Deleted(id)
            /\ lastData' = Outcome("delete", d, id,
                              [success |-> TRUE,
                               deleted |-> Cardinality(Matching(id)),
                               id |-> id])
  /\ DataFrame

\* -- data operations called without awaiting the one before
\* (tests/integration.test.js 253-270: the calls are made in a loop and
\* awaited together.)  A call runs up to its first await on real I/O; what
\* it waits for is kept in the client's slot, and each completion of an I/O
\* resumes it for one more turn.
Callable(c) == Usable /\ pending[c] = NoCall

Suspended(c, st) == lastData = NoResult /\ pending[c].st = st

\* Nothing is in flight.
Quiet == \A c \in Clients : pending[c] = NoCall

\* What a resolved insertData of one record leaves in lastData.
InsertResolved(d, r, file) ==
  [op |-> "insert", source |-> d, outcome |-> "resolved",
   arg |-> [kind |-> "scalar", record |-> r], threw |-> FALSE,
   success |-> TRUE, recordCount |-> 1, filepath |-> file]

InsertThrown(d, r) ==
  [op |-> "insert", source |-> d, outcome |-> "rejected",
   arg |-> [kind |-> "scalar", record |-> r], threw |-> TRUE]

\* insertData(r) 271-291 with one record r, up to its first await: fs.mkdir
\* on the flat files (364), the INSERT on DuckDB (353); better-sqlite3
\* answers in the same turn (305-319).
InsertCall(c, r) ==
  LET d == ServedBy(UnderTest) IN
  /\ Callable(c)
  /\ IF d = "sqlite"
     THEN InsertData([kind |-> "scalar", record |-> r])
     ELSE /\ nSupplied < MaxRecords
          /\ nSupplied' = nSupplied + 1
          /\ pending' = [pending EXCEPT ![c] =
                           [st |-> IF d = "fallback" THEN "mkdir" ELSE "run",
                            op |-> "insert", record |-> r]]
          /\ ServiceFrame
          /\ UNCHANGED <<storeVars, lastData, nResolved, insertRejected,
                         built>>

\* insertDataFallback 366-370: fs.mkdir resolved; the file name is made of
\* the clock as it reads now, and fs.writeFile starts.
InsertMkdirDone(c) ==
  /\ Suspended(c, "mkdir")
  /\ pending' = [pending EXCEPT ![c] =
                   [st |-> "write", op |-> "insert",
                    record |-> pending[c].record, file |-> now]]
  /\ ServiceFrame
  /\ UNCHANGED <<storeVars, lastData, nSupplied, nResolved, insertRejected,
                 built>>

\* insertDataFallback 370-377: fs.writeFile wrote the file, replacing one of
\* that name, or failed.
InsertWriteDone(c) ==
  LET p == pending[c] IN
  /\ Suspended(c, "write")
  /\ pending' = [pending EXCEPT ![c] = NoCall]
  /\ \/ /\ files' = [files EXCEPT ![p.file] =
                       [exists |-> TRUE, data |-> <<p.record>>]]
        /\ lastData' = InsertResolved("fallback", p.record, p.file)
        /\ nResolved' = nResolved + 1
        /\ UNCHANGED insertRejected
     \/ /\ lastData' = InsertThrown("fallback", p.record)
        /\ insertRejected' = TRUE
        /\ UNCHANGED <<files, nResolved>>
  /\ ServiceFrame
  /\ UNCHANGED <<table, nextId, now, nSupplied, built>>

\* insertDataDuckDB 353-358: the engine ran the INSERT, or refused it.
InsertRunDone(c) ==
  LET p == pending[c] IN
  /\ Suspended(c, "run")
  /\ pending' = [pending EXCEPT ![c] = NoCall]
  /\ \/ /\ table' = table \o <<RowOf("duckdb", p.record, nextId, now)>>
        /\ nextId' = nextId + 1
        /\ lastData' = InsertResolved("duckdb", p.record, now)
        /\ nResolved' = nResolved + 1
        /\ UNCHANGED insertRejected
     \/ /\ lastData' = InsertThrown("duckdb", p.record)
        /\ insertRejected' = TRUE
        /\ UNCHANGED <<table, nextId, nResolved>>
  /\ ServiceFrame
  /\ UNCHANGED <<files, now, nSupplied, built>>

\* updateData(id, u) 760-776 and deleteData(id) 834-849 up to their first
\* await: on DuckDB the SELECT COUNT(*) of the existence check (781, 854);
\* the other backends answer as in UpdateData and DeleteData.
UpdateCall(c, id, u) ==
  /\ Callable(c)
  /\ IF ServedBy(UnderTest) # "duckdb"
     THEN UpdateData(id, u)
     ELSE /\ pending' = [pending EXCEPT ![c] =
                           [st |-> "check", op |-> "update", id |-> id,
                            updates |-> u]]
          /\ ServiceFrame
          /\ UNCHANGED <<storeVars, lastData, nSupplied, nResolved,
                         insertRejected, built>>

DeleteCall(c, id) ==
  /\ Callable(c)
  /\ IF ServedBy(UnderTest) # "duckdb"
     THEN DeleteData(id)
     ELSE /\ pending' = [pending EXCEPT ![c] =
                           [st |-> "check", op |-> "delete", id |-> id,
                            updates |-> {}]]
          /\ ServiceFrame
          /\ UNCHANGED <<storeVars, lastData, nSupplied, nResolved,
                         insertRejected, built>>

\* What a resolved update or delete on DuckDB leaves in lastData: result is
\* what the caller gets, count the number of rows the call's statement
\* changed or removed.
Written(op, id, n, count) ==
  [op |-> op, source |-> "duckdb", outcome |-> "resolved", arg |-> id,
   result |-> IF op = "update"
              THEN [success |-> TRUE, updated |-> n, id |-> id]
              ELSE [success |-> TRUE, deleted |-> n, id |-> id],
   count |-> count]

\* updateDataDuckDB 780-790, deleteDataDuckDB 853-863: the engine answered
\* the existence check; with no such row the call returns 0, else it sends
\* its UPDATE or DELETE (798, 866).
CheckDone(c) ==
  LET p == pending[c] IN
  /\ Suspended(c, "check")
  /\ IF Exists(p.id)
     THEN /\ pending' = [pending EXCEPT ![c].st = "change"]
          /\ UNCHANGED lastData
     ELSE /\ pending' = [pending EXCEPT ![c] = NoCall]
          /\ lastData' = Written(p.op, p.id, 0, 0)
  /\ ServiceFrame
  /\ UNCHANGED <<storeVars, nSupplied, nResolved, insertRejected, built>>

\* updateDataDuckDB 798-804, deleteDataDuckDB 866-872: the engine ran the
\* statement on the rows that have the id now; the call returns
\* result.changes || 1.  An UPDATE the engine refuses rejects the call.
WriteDone(c) ==
  LET p == pending[c]
      count == Cardinality(Matching(p.id))
  IN
  /\ Suspended(c, "change")
  /\ pending' = [pending EXCEPT ![c] = NoCall]
  /\ CASE p.op = "delete" ->
            /\ table' = Deleted(p.id)
            /\ lastData' = Written("delete", p.id, OrN(count, 1), count)
       [] p.op = "update" /\ SetClauseOK(p.updates)
            /\ KeyOK(p.id, p.updates) ->
            /\ table' = Updated(p.id, p.updates)
            /\ lastData' = Written("update", p.id, OrN(count, 1), count)
       [] OTHER ->
            /\ table' = table
            /\ lastData' = [op |-> "update", source |-> "duckdb",
                            outcome |-> "rejected", arg |-> p.id]
  /\ ServiceFrame
  /\ UNCHANGED <<nextId, files, now, nSupplied, nResolved, insertRejected,
                 built>>

\* tests/integration.test.js 269-279: queryData once every call has
\* settled.
QueryAfter == Quiet /\ QueryData(NoFilters)

\* -- the constructor's paths
\* A path is the sequence of its parts.  Date.now() at a reading of the
\* clock, as the template literal prints it.
Millis == [c \in Clock |-> ToString(c)]

TestIds == {"a", "b"}

\* tests/setup.js 63-81 getTestConfig(t): testId and paths.processedData
\* carry t (the database paths it sets are under config.database, which
\* the constructor does not read); tests/integration.test.js 25: the
\* configuration { testId }; duckDBSingleton.js 38: no testId at all.
GetTestConfig(t) ==
  [testId |-> t, duckdbPath |-> <<>>, sqlitePath |-> <<>>,
   processedData |-> <<"data", "test-processed-", t>>]

BareConfig(t) ==
  [testId |-> t, duckdbPath |-> <<>>, sqlitePath |-> <<>>,
   processedData |-> <<>>]

Configs ==
  {GetTestConfig(t) : t \in TestIds}
    \cup {BareConfig(t) : t \in TestIds \cup {Absent}}

\* x || d on a path: the absent path is the empty one.
OrP(x, d) == IF x = <<>> THEN d ELSE x

\* constructor 13-26: the three paths for NODE_ENV env and configuration
\* cfg, constructed at clock reading t.
Paths(env, cfg, t) ==
  IF env = "test"
  THEN LET testId == OrS(cfg.testId, Millis[t]) IN
       [duckdbPath |-> OrP(cfg.duckdbPath,
                           <<"data", "database", "test_", testId, ".duckdb">>),
        sqlitePath |-> OrP(cfg.sqlitePath,
                           <<"data", "database", "test_", testId, ".sqlite">>),
        fallbackPath |-> OrP(cfg.processedData, <<"data", "test-processed">>)]
  ELSE [duckdbPath |-> OrP(cfg.duckdbPath,
                           <<"data", "database", "agricultural_data.duckdb">>),
        sqlitePath |-> OrP(cfg.sqlitePath,
                           <<"data", "database", "agricultural_data.sqlite">>),
        fallbackPath |-> OrP(cfg.processedData, <<"data", "processed">>)]

\* new DuckDBService(cfg) in a process whose NODE_ENV is env.
Construct(env, cfg) ==
  /\ lastData = NoResult
  /\ Cardinality(built) < MaxInits
  /\ \A b \in built : b.env = env
  /\ built' = built \cup {[env |-> env, testId |-> cfg.testId,
                           paths |-> Paths(env, cfg, now)]}
  /\ ServiceFrame
  /\ UNCHANGED <<storeVars, lastData, nSupplied, nResolved, insertRejected,
                 pending>>

\* -- the probes
\* What a probe meets: whether require() of the client library succeeds,
\* whether the constructor throws, what becomes of the callback of new
\* duckdb.Database (called with no error, called with an error, called
\* after the timer, never called), whether close() throws.
ProbeEnvs ==
  [load : BOOLEAN, ctor : {"ok", "throws"},
   callback : {"ready", "error", "late", "never"}, close : {"ok", "throws"}]

\* (variant: there is no timer)
TimedOut_never == "pending"

\* checkDuckDB 121-124: the timer of the race resolves false.
TimedOut == "false"

\* checkDuckDB 102-120: the promise around new duckdb.Database; pending
\* while the callback has not been called.
Connection(e) ==
  IF e.ctor = "throws" THEN "false"
  ELSE CASE e.callback = "error" -> "false"
         [] e.callback = "ready" -> "true"
         [] OTHER -> "pending"

\* Promise.race 101: the promise that settles first.
Race(a, timer) == IF a = "pending" THEN timer ELSE a

\* checkDuckDB 86-132: "true", "false", "throws" for a rejection, "pending"
\* for a promise that never settles.
CheckDuckDBProbe(e) ==
  IF ~e.load THEN "false" ELSE Race(Connection(e), TimedOut)

\* checkSQLite 134-146: require, new Database(':memory:') and close() in
\* one try block.
CheckSQLiteProbe(e) ==
  IF e.load /\ e.ctor = "ok" /\ e.close = "ok" THEN "true" ELSE "false"

\* tests/duckdb.test.js 67-75: await service.checkDuckDB() and await
\* service.checkSQLite() on a constructed service.
CheckDuckDBCall(e) ==
  /\ lastData = NoResult
  /\ built # {}
  /\ lastData' = [op |-> "probe", engine |-> "duckdb", env |-> e,
                  outcome |-> CheckDuckDBProbe(e)]
  /\ ServiceFrame
  /\ UNCHANGED <<storeVars, nSupplied, nResolved, insertRejected, extVars>>

CheckSQLiteCall(e) ==
  /\ lastData = NoResult
  /\ built # {}
  /\ lastData' = [op |-> "probe", engine |-> "sqlite", env |-> e,
                  outcome |-> CheckSQLiteProbe(e)]
  /\ ServiceFrame
  /\ UNCHANGED <<storeVars, nSupplied, nResolved, insertRejected, extVars>>

\* -- the stored data across close() and initialize()
\* createDuckDBTables 199, 228-231: an initialize() that ends on DuckDB has
\* dropped sensor_data and created it again (the sequence is kept, 221);
\* createSQLiteTables 248 (CREATE TABLE IF NOT EXISTS) and initializeFallback
\* 189-193 (mkdir) leave what is stored.
TableAfterInitialize(mode) == IF mode = "duckdb" THEN <<>> ELSE table

\* await service.close() on the service under test: its first turn (for
\* DuckDB the callback of db.close, 733-741, follows).
StoreClose ==
  /\ Usable
  /\ closing[UnderTest] = NULL
  /\ ~closedSince[UnderTest]
  /\ PrivateClose(UnderTest)

\* await service.initialize() on the closed service, nothing else running
\* meanwhile; the libraries and the files are those of the first
\* initialize(), which chose the backend selected[UnderTest], and the call
\* ends on that backend again.
Reinitialize ==
  /\ Usable
  /\ closedSince[UnderTest]
  /\ closing[UnderTest] = NULL
  /\ CanStart
  /\ nInits' = nInits + 1
  /\ \E L0 \in InitializeBegin([Local(UnderTest) EXCEPT
                                  !.ctx = Snapshot(UnderTest)]) :
       \E L \in RunToCompletion(L0) :
         /\ L.mode = selected[UnderTest]
         /\ db' = [db EXCEPT ![UnderTest] = L.db]
         /\ isAvailable' = [isAvailable EXCEPT ![UnderTest] = L.avail]
         /\ dbType' = [dbType EXCEPT ![UnderTest] = L.type]
         /\ nHandles' = L.nH
         /\ hstate' = L.hs
         /\ table' = TableAfterInitialize(L.mode)
  /\ closedSince' = [closedSince EXCEPT ![UnderTest] = FALSE]
  /\ NoServiceObs
  /\ UNCHANGED <<regVars, nServices, born, ipc, ictx, closing, callers,
                 selected, registryClosed>>
  /\ UNCHANGED <<nextId, files, now, lastData, nSupplied, nResolved,
                 insertRejected, extVars>>

\* ------------------------------------------------------------------ spec
\* What initialize() and close() do once they have been called.
ServiceSteps ==
  \/ \E s \in Services : CheckDuckDBDone(s)
  \/ \E s \in Services : InitializeDuckDBOpen(s)
  \/ \E s \in Services : OpenDuckDBCallbackDone(s)
  \/ \E s \in Services : CreateDuckDBTablesDone(s)
  \/ \E s \in Services : InitializeSQLiteDone(s)
  \/ \E s \in Services : InitializeFallbackDone(s)
  \/ \E s \in Services : CatchFallbackDone(s)
  \/ \E s \in Services : CloseCallback(s)

\* The application process: registry, its clients, ReportsService.  No
\* client calls the registry's close().
Next ==
  \/ GetInstance
  \/ \E k \in Callers : Release(k)
  \/ \E k \in Callers : DirectClose(k)
  \/ \E s \in Services : Operation(s)
  \/ GenerateQualityReport
  \/ ServiceSteps

Spec == Init /\ [][Next]_vars

\* The registry with clients that also call its close().  Reports and
\* operations touch neither the registry nor a service's fields and are
\* left to Spec.
NextRegistry ==
  \/ GetInstance
  \/ \E k \in Callers : Release(k)
  \/ \E k \in Callers : DirectClose(k)
  \/ \E k \in Callers : RegistryClose(k)
  \/ ServiceSteps

SpecRegistry == Init /\ [][NextRegistry]_vars

\* The service under its test-suite.
NextService ==
  \/ NewTestService
  \/ \E s \in Services : PrivateInitialize(s)
  \/ \E s \in Services : PrivateClose(s)
  \/ \E s \in Services : PrivateOperation(s)
  \/ ServiceSteps

SpecService == Init /\ [][NextService]_vars

\* The service under its test-suite with the data it stores.
NextData ==
  \/ SetUp
  \/ Tick
  \/ Expect
  \/ \E x \in InsertInputs : InsertData(x)
  \/ \E f \in Filters : QueryData(f)
  \/ GetStats
  \/ \E p \in ParquetFiles : ReadParquet(p)
  \/ \E id \in Ids : \E u \in Updates : UpdateData(id, u)
  \/ \E id \in Ids : DeleteData(id)

SpecData == Init /\ [][NextData]_vars

\* One service, its data operations with every argument of update, and
\* close() and initialize() on it.
NextStore ==
  \/ SetUp
  \/ Expect
  \/ \E x \in InsertInputs : InsertData(x)
  \/ \E f \in {NoFilters} : QueryData(f)
  \/ \E id \in Ids : \E u \in Updates \cup IdUpdates : UpdateData(id, u)
  \/ \E id \in Ids : DeleteData(id)
  \/ StoreClose
  \/ CloseCallback(UnderTest)
  \/ Reinitialize

SpecStore == Init /\ [][NextStore]_vars

\* One service and clients that call its data operations without awaiting
\* one another.
NextConcurrent ==
  \/ SetUp
  \/ Tick
  \/ Expect
  \/ \E c \in Clients : \E r \in Readings : InsertCall(c, r)
  \/ \E c \in Clients : InsertMkdirDone(c)
  \/ \E c \in Clients : InsertWriteDone(c)
  \/ \E c \in Clients : InsertRunDone(c)
  \/ \E c \in Clients : \E id \in Ids : \E u \in Updates :
       UpdateCall(c, id, u)
  \/ \E c \in Clients : \E id \in Ids : DeleteCall(c, id)
  \/ \E c \in Clients : CheckDone(c)
  \/ \E c \in Clients : WriteDone(c)
  \/ QueryAfter

SpecConcurrent == Init /\ [][NextConcurrent]_vars

\* Services are constructed and probed.
NextConstruct ==
  \/ Tick
  \/ Expect
  \/ \E env \in {"test", "development"} : \E cfg \in Configs :
       Construct(env, cfg)
  \/ \E e \in ProbeEnvs : CheckDuckDBCall(e)
  \/ \E e \in ProbeEnvs : CheckSQLiteCall(e)

SpecConstruct == Init /\ [][NextConstruct]_vars

\* ================================================================ claims
\* A service of the registry whose initialize() rejected: initializeInstance
\* 48-51 dropped it from the registry.
Rejected(s) == born[s] = "registry" /\ ipc[s] = "idle" /\ selected[s] = "none"

\* The services of the registry whose initialize() was invoked and did not
\* reject.
Live == {s \in Services : born[s] = "registry" /\ ~Rejected(s)}

\* C1: callers that call getInstance() concurrently while no instance is
\* cached cause one initialize() and all get the identical instance.  As
\* long as nobody has called the registry's close(): at most one service
\* whose initialize() was invoked has not rejected, every call still pending
\* awaits that service, which is the cached instance, and every reference
\* handed out is the cached instance (or, once an initialize() has rejected
\* and emptied the cache, the service of that rejected initialization).
C1_OneInitializeOneInstance ==
  ~registryClosed =>
    /\ Cardinality(Live) <= 1
    /\ \A k \in Callers :
         /\ k.pc \in {"initiating", "waiting"} =>
              k.awaiting = instance /\ instance \in Live
         /\ k.pc = "holding" =>
              k.ref # NULL /\ (k.ref = instance \/ Rejected(k.ref))

\* C1 witness: the initialize() the first caller started has just resolved
\* and two callers, one of which called while it was in flight, hold the
\* cached instance.
C1_Witness ==
  /\ ~registryClosed
  /\ instance # NULL
  /\ lastInit.svc = instance
  /\ lastInit.mode # "rejected"
  /\ CopiesIn(Caller("holding", instance, NULL), callers) >= 2

\* C2: no caller receives from getInstance() an instance whose initialize()
\* has not yet completed: a reference a caller holds is a service whose
\* initialize() is not in flight and has resolved.
C2_NeverUninitialized ==
  \A k \in Callers :
    k.pc = "holding" /\ k.ref # NULL =>
      ipc[k.ref] = "idle" /\ selected[k.ref] # "none"

\* C3: once initialize() has selected the analytical or relational backend,
\* every later operation is served by that backend or rejects, and an
\* operation issued after close() rejects.
C3_NoSilentDegrade ==
  lastOp.sel \in {"duckdb", "sqlite"} =>
    /\ lastOp.source \in {lastOp.sel, "reject"}
    /\ lastOp.closed => lastOp.source = "reject"

\* Handles that are live connections to the database file of backend kind.
OpenHandles(kind) == {h \in HandleIds : hstate[h] = kind}

\* C4: at most one connection handle is open for one database file.
C4_OneHandlePerFile ==
  /\ Cardinality(OpenHandles("duckdb")) <= 1
  /\ Cardinality(OpenHandles("sqlite")) <= 1

\* C5: initialize() on a service that is Ready runs no probe, opens no
\* handle, leaves db, isAvailable and dbType unchanged and returns the mode
\* of the first call.
C5_InitializeIdempotent ==
  lastInit.wasReady =>
    /\ lastInit.duck = "notrun" /\ lastInit.sqlite = "notrun"
    /\ lastInit.opened = 0
    /\ lastInit.dbv = lastInit.db0
    /\ lastInit.avail = lastInit.avail0
    /\ lastInit.type = lastInit.type0
    /\ lastInit.mode = lastInit.mode0

\* C6 as stated: when the analytical probe says false and the relational
\* probe says true, initialize() resolves with the relational backend.
C6_Original ==
  lastInit.duck = "false" /\ lastInit.sqlite = "true" =>
    lastInit.mode = "sqlite" /\ lastInit.type = "sqlite"

\* C6: when the analytical probe says false, initialize() never selects the
\* analytical backend; when moreover the relational probe says true and
\* nothing throws while the relational backend is constructed, it resolves
\* with mode 'sqlite', dbType 'sqlite' and isAvailable true.
C6_FallbackOrder ==
  /\ lastInit.duck = "false" => lastInit.mode # "duckdb"
  /\ lastInit.duck = "false" /\ lastInit.sqlite = "true"
       /\ lastInit.threw = "no" =>
       /\ lastInit.mode = "sqlite"
       /\ lastInit.type = "sqlite"
       /\ lastInit.avail

C6_Witness ==
  /\ lastInit.duck = "false" /\ lastInit.sqlite = "true"
  /\ lastInit.threw = "no"
  /\ lastInit.mode = "sqlite"

\* C7 as stated: when both probes say false, initialize() never rejects and
\* resolves with the flat-file backend.
C7_Original ==
  lastInit.duck = "false" /\ lastInit.sqlite = "false" =>
    lastInit.mode = "fallback"

\* C7: when both probes say false, initialize() selects no engine: it
\* resolves with mode 'fallback' and isAvailable false, or it rejects, and
\* it rejects only after creating the flat-file directory threw; when that
\* does not throw the result carries no error.
C7_UniversalFallback ==
  lastInit.duck = "false" /\ lastInit.sqlite = "false" =>
    /\ lastInit.mode \in {"fallback", "rejected"}
    /\ lastInit.mode = "rejected" => lastInit.threw = "fallback"
    /\ lastInit.mode = "fallback" => ~lastInit.avail
    /\ lastInit.threw = "no" => lastInit.mode = "fallback" /\ ~lastInit.err

C7_Witness ==
  /\ lastInit.duck = "false" /\ lastInit.sqlite = "false"
  /\ lastInit.threw = "no"
  /\ lastInit.mode = "fallback"
  /\ lastInit.wasReady

\* C8 as stated: when a backend's construction throws after its probe said
\* true, initialize() does not reject and returns mode 'fallback' with the
\* error.
C8_Original ==
  lastInit.threw = "backend" =>
    lastInit.mode = "fallback" /\ lastInit.err /\ ~lastInit.avail

\* C8: when a backend's construction throws after its probe said true,
\* initialize() selects no engine: either it resolves with mode 'fallback',
\* the error and isAvailable false, so that the flat-file backend answers,
\* or (creating the flat-file directory threw in the catch block) it
\* rejects.
C8_ConstructionThrows ==
  lastInit.threw = "backend" =>
    /\ lastInit.mode \in {"fallback", "rejected"}
    /\ lastInit.mode = "fallback" =>
         /\ lastInit.err
         /\ ~lastInit.avail
         /\ Dispatch(lastInit.avail, lastInit.type) = "fallback"

C8_Witness ==
  /\ lastInit.threw = "backend"
  /\ lastInit.mode = "fallback"
  /\ lastInit.err
  /\ lastInit.opened > 0

\* C9: isAvailable true implies that dbType is 'duckdb' or 'sqlite' and the
\* handle is not null.
C9_AvailableHasEngine ==
  \A s \in Services :
    isAvailable[s] => dbType[s] \in {"duckdb", "sqlite"} /\ db[s] # NULL

\* C9 witness: a close() has completed on a service and another service is
\* available.
C9_Witness ==
  \E s, t \in Services :
    /\ closedSince[s] /\ db[s] = NULL /\ dbType[s] # "null"
    /\ isAvailable[t]

\* C10: after initialize() resolves the service agrees with the mode it
\* returned: 'duckdb' with isAvailable true and dbType 'duckdb', 'sqlite'
\* with isAvailable true and dbType 'sqlite', 'fallback' with isAvailable
\* false and dbType null.
C10_StateAgreesWithMode ==
  /\ lastInit.mode = "duckdb" => lastInit.avail /\ lastInit.type = "duckdb"
  /\ lastInit.mode = "sqlite" => lastInit.avail /\ lastInit.type = "sqlite"
  /\ lastInit.mode = "fallback" => ~lastInit.avail /\ lastInit.type = "null"

\* C11: after close() has resolved on a service (and while no initialize()
\* has been called on it since) its handle is null and isAvailable is
\* false, so that a second close() finds and leaves the same state.
C11_CloseLeavesClosed ==
  \A s \in Services :
    closedSince[s] /\ ipc[s] = "idle" /\ closing[s] = NULL =>
      db[s] = NULL /\ ~isAvailable[s]

Holders(bag, s) == CopiesIn(Caller("holding", s, NULL), bag)

\* C27: a getInstance() call that resolves to a service whose initialize()
\* has resolved resolves to one that no client is closing and whose
\* operations are served by the backend that initialize() chose.
C27_NeverHandsOutClosed ==
  [][\A s \in Services :
       (/\ Holders(callers', s) > Holders(callers, s)
        /\ ipc[s] = "idle" /\ selected[s] # "none")
       => (closing[s] = NULL /\ ServedBy(s) = selected[s])]_vars

\* C28: with clients that call the registry's close(), no getInstance() call
\* resolves to null.
C28_NeverResolvesNull ==
  \A k \in Callers : k.pc = "holding" => k.ref # NULL

\* C29: when the initialize() the registry awaits rejects, the call that
\* started it and the calls waiting for it reject, the registry holds no
\* instance and is not initializing, and the next getInstance() starts a
\* new initialization.
C29_FailureRecovery ==
  (/\ lastInit.svc # NULL
   /\ lastInit.mode = "rejected"
   /\ born[lastInit.svc] = "registry")
  => (/\ instance = NULL
      /\ ~isInitializing
      /\ GetInstancePath(instance, isInitializing) = "init"
      /\ \A k \in Callers :
           k.pc \in {"initiating", "waiting"} => k.awaiting # lastInit.svc
      /\ BagIn(Caller("failed", NULL, NULL), callers))

\* C29 witness: the first initialization of the registry rejected, and a
\* later getInstance() has constructed a second service and initializes it.
C29_Witness ==
  /\ Rejected(1)
  /\ nServices = 2
  /\ born[2] = "registry"
  /\ instance = 2
  /\ \E k \in Callers : k.pc = "initiating" /\ k.awaiting = 2

\* ---- the data operations (SpecData)
\* The stored records as the caller gave them (and as update left them).
Stored ==
  IF ServedBy(UnderTest) = "fallback" THEN AllData(1)
  ELSE [i \in 1..Len(table) |-> table[i].reading]

\* The record a returned row or record was stored from.
Original(x, source) == IF source = "fallback" THEN x ELSE x.reading

\* C13: on the two engines, update(id, fields) and delete(id) for an id
\* that no stored record has resolve with success true and a count of zero,
\* never reject, and leave the stored records as they were.  (The claim
\* says so of the flat files too, whose answer is the subject of C14.)
C13_NotFoundIsNoError ==
  (/\ lastData.op \in {"update", "delete"}
   /\ lastData.source # "fallback"
   /\ ~lastData.matched)
  => (/\ lastData.outcome = "resolved"
      /\ lastData.result.success = TRUE
      /\ lastData.op = "update" => lastData.result.updated = 0
      /\ lastData.op = "delete" => lastData.result.deleted = 0
      /\ ~lastData.changed)

\* C14: while the flat files are the backend, update(id, fields) and
\* delete(id) resolve with success false, a message and the id, and leave
\* every file as it was.
C14_FallbackCapabilityGap ==
  (lastData.op \in {"update", "delete"} /\ lastData.source = "fallback")
  => (/\ lastData.outcome = "resolved"
      /\ lastData.result.success = FALSE
      /\ lastData.result.message # ""
      /\ lastData.result.id = lastData.arg
      /\ ~lastData.changed)

\* C14 witness: update was answered by the flat files while a file with a
\* record was stored.
C14_Witness ==
  /\ lastData.op = "update"
  /\ lastData.source = "fallback"
  /\ \E c \in Clock : files[c].exists /\ files[c].data # <<>>

\* The queryable fields of a returned row x are those of the record r.
SameFields(x, r) ==
  /\ x.sensor_id = r.sensor_id
  /\ x.timestamp = r.timestamp
  /\ x.reading_type = r.reading_type
  /\ x.value = r.value
  /\ x.field = FieldOf(r)
  /\ x.battery_level = r.battery_level
  /\ x.quality_score = (IF r.quality_score = Undef THEN 100
                        ELSE r.quality_score)

\* C15: query({sensor_id}) returns, for every stored record of that sensor,
\* a record whose queryable fields are those of the record.
C15_RoundTrip ==
  (/\ lastData.op = "query"
   /\ lastData.filters = [NoFilters EXCEPT !.sensor_id = "S1"])
  => \A i \in 1..Len(Stored) :
       Stored[i].sensor_id = "S1" =>
         \E j \in 1..Len(lastData.data) :
           IF lastData.source = "fallback"
           THEN lastData.data[j] = Stored[i]
           ELSE SameFields(lastData.data[j], Stored[i])

RECURSIVE SumCounts(_)
SumCounts(S) ==
  IF S = {} THEN 0
  ELSE LET e == CHOOSE e \in S : TRUE IN e.count + SumCounts(S \ {e})

\* C16: when only insertData calls that resolved have written to the
\* storage, which was empty at first, getStats gives as total and as the sum
\* of the counts of byType the number of records those calls were given.
C16_StatsConsistency ==
  (/\ lastData.op = "stats"
   /\ ~insertRejected
   /\ Len(table) = nextId - 1)
  => (/\ lastData.stats.total = nResolved
      /\ SumCounts(lastData.stats.byType.counts) = nResolved)

\* C17: on every backend getStats gives byType as an array of the pairs of
\* a type and its count and latestTimestamp as the greatest stored
\* timestamp; on empty storage total 0, no pairs and null.
C17_StatsShape ==
  lastData.op = "stats"
  => (/\ lastData.stats.byType.shape = "array"
      /\ lastData.stats.byType.counts = ByType(Stored)
      /\ lastData.stats.latestTimestamp = MaxTimestamp(Stored)
      /\ Stored = <<>> =>
           /\ lastData.stats.total = 0
           /\ lastData.stats.byType.counts = {}
           /\ lastData.stats.latestTimestamp = NullN)

\* The record r satisfies the filters f.
Satisfies(r, f) ==
  /\ f.sensor_id # Absent => r.sensor_id = f.sensor_id
  /\ f.reading_type # Absent => r.reading_type = f.reading_type
  /\ f.field # Absent => FieldOf(r) = f.field
  /\ f.startDate # Undef => f.startDate <= r.timestamp
  /\ f.endDate # Undef => r.timestamp <= f.endDate

Descending(s) ==
  \A i \in 1..Len(s) - 1 : s[i].timestamp >= s[i + 1].timestamp

\* C18: with no limit, query(filters) returns the stored records that
\* satisfy every filter supplied, each once, by descending timestamp,
\* whatever the backend.
C18_QueryFilters ==
  (lastData.op = "query" /\ lastData.filters.limit = Undef)
  => (/\ \A j \in 1..Len(lastData.data) :
           Satisfies(Original(lastData.data[j], lastData.source),
                     lastData.filters)
      /\ Len(lastData.data) =
           Cardinality({i \in 1..Len(Stored) :
                          Satisfies(Stored[i], lastData.filters)})
      /\ Descending(lastData.data))

\* C19: with a limit L, 0 included, query returns at most L records.
C19_LimitBounds ==
  (lastData.op = "query" /\ lastData.filters.limit # Undef)
  => Len(lastData.data) <= lastData.filters.limit

\* The number of records the argument of insertData holds.
Supplied(x) == IF x.kind = "scalar" THEN <<x.record>> ELSE x.records

\* C20: an insertData call that resolves reports success and as recordCount
\* the number of records it was given, one for a record that is not in an
\* array, and all of them are stored; a call in which the backend threw
\* rejects.
C20_InsertAllOrReject ==
  lastData.op = "insert"
  => LET given == Supplied(lastData.arg)
         n == Len(given)
     IN /\ lastData.threw => lastData.outcome = "rejected"
        /\ lastData.outcome = "resolved" =>
             /\ lastData.success = TRUE
             /\ lastData.recordCount = n
             /\ IF lastData.source = "fallback"
                THEN /\ files[lastData.filepath].exists
                     /\ files[lastData.filepath].data = given
                ELSE /\ Len(table) >= n
                     /\ \A i \in 1..n :
                          table[Len(table) - n + i].reading = given[i]

\* C20 witness: a record that is not in an array was inserted into an
\* engine's table after another record, and both are stored.
C20_Witness ==
  /\ lastData.op = "insert"
  /\ lastData.outcome = "resolved"
  /\ lastData.arg.kind = "scalar"
  /\ lastData.source \in {"duckdb", "sqlite"}
  /\ nResolved = 2
  /\ Len(table) = 2

\* C26: nothing that a read of the analytical backend resolved with (query,
\* getStats, readParquet) holds a value whose typeof is bigint.
C26_NoBigint ==
  (/\ lastData.op \in {"query", "stats", "parquet"}
   /\ lastData.outcome = "resolved"
   /\ lastData.source \in {"duckdb", "duckdb-parquet"})
  => "bigint" \notin lastData.types

\* The stored rows a step leaves alone: all of them, but for those whose id
\* a deleteData of the step, served by an engine, names.
Survivors ==
  IF /\ lastData'.op = "delete"
     /\ lastData # lastData'
     /\ lastData'.source \in {"duckdb", "sqlite"}
  THEN Deleted(lastData'.arg) ELSE table

\* C22: on an engine backend every stored record that the step does not
\* delete is still stored after the step, whatever the step is (an insert,
\* update or delete on other records, close(), initialize() ending on the
\* same backend).
C22_NeverExpires ==
  [][(nServices >= UnderTest /\ selected[UnderTest] \in {"duckdb", "sqlite"})
     => (/\ Len(table') >= Len(Survivors)
         /\ \A i \in 1..Len(Survivors) :
              /\ table'[i].reading.sensor_id = Survivors[i].reading.sensor_id
              /\ table'[i].reading.timestamp
                   = Survivors[i].reading.timestamp)]_vars

\* C25: while no record is removed, every stored record keeps the id the
\* backend assigned to it.
C25_IdStable ==
  [][Len(table') >= Len(table)
     => \A i \in 1..Len(table) : table'[i].id = table[i].id]_vars

\* C21: when single-record insertData calls were made without awaiting one
\* another and all resolved with success (no call rejected, no record
\* removed since), a query made after they settled returns as many records
\* as those calls were given, on every backend.
C21_ConcurrentInserts ==
  (/\ lastData.op = "query"
   /\ Quiet
   /\ ~insertRejected
   /\ nResolved = nSupplied
   /\ Len(table) = nextId - 1)
  => Len(lastData.data) = nResolved

\* C30: the count an update or delete on DuckDB resolves with is the number
\* of rows its statement changed or removed.
C30_CountIsActual ==
  (/\ lastData.op \in {"update", "delete"}
   /\ lastData.source = "duckdb"
   /\ lastData.outcome = "resolved")
  => (IF lastData.op = "update" THEN lastData.result.updated
      ELSE lastData.result.deleted) = lastData.count

PathsOf(b) == {b.paths.duckdbPath, b.paths.sqlitePath, b.paths.fallbackPath}

Contains(path, t) == \E i \in DOMAIN path : path[i] = t

\* C23: the three paths of a service constructed with a testId all contain
\* it, and two services constructed with different testIds have no path in
\* common.
C23_TestIsolation ==
  /\ \A b \in built :
       TruthyS(b.testId) => \A path \in PathsOf(b) : Contains(path, b.testId)
  /\ \A b1, b2 \in built :
       (TruthyS(b1.testId) /\ TruthyS(b2.testId) /\ b1.testId # b2.testId)
       => PathsOf(b1) \cap PathsOf(b2) = {}

\* C24: a probe settles, and with true or false; with false when the
\* library does not load, when the constructor throws, when the callback of
\* the connection gets an error and when it is not called in time; with
\* true only when the connection was made (for DuckDB: its callback was
\* called with no error).
C24_ProbeNeverThrows ==
  lastData.op = "probe"
  => LET e == lastData.env IN
     /\ lastData.outcome \in {"true", "false"}
     /\ (~e.load \/ e.ctor = "throws") => lastData.outcome = "false"
     /\ (lastData.engine = "duckdb" /\ e.callback # "ready")
          => lastData.outcome = "false"
     /\ lastData.outcome = "true"
          => (/\ e.load
              /\ e.ctor = "ok"
              /\ lastData.engine = "duckdb" => e.callback = "ready")

C24_Witness ==
  /\ lastData.op = "probe"
  /\ lastData.engine = "duckdb"
  /\ lastData.env.load
  /\ lastData.env.ctor = "ok"
  /\ lastData.env.callback = "never"
  /\ lastData.outcome = "false"

TypeOK ==
  /\ instance \in 0..MaxInits
  /\ initializationPromise \in 0..MaxInits
  /\ isInitializing \in BOOLEAN
  /\ nServices \in 0..MaxInits
  /\ nInits \in 0..MaxInits
  /\ \A s \in Services :
       /\ born[s] \in {"none", "registry", "test"}
       /\ db[s] \in 0..MaxInits
       /\ isAvailable[s] \in BOOLEAN
       /\ dbType[s] \in {"null", "duckdb", "sqlite"}
       /\ closing[s] \in 0..MaxInits
  /\ nHandles \in 0..MaxInits
  /\ IsABag(callers)
  /\ BagCardinality(callers) = NumCallers
  /\ \A k \in Callers :
       /\ k.pc \in {"idle", "initiating", "waiting", "holding", "failed",
                    "closing", "regClosing"}
       /\ k.ref \in 0..MaxInits
       /\ k.awaiting \in 0..MaxInits
       /\ callers[k] > 0
  /\ lastRegClose \in 0..MaxInits
  /\ Len(table) <= MaxRecords
  /\ \A i \in 1..Len(table) : table[i].id \in 0..(nextId - 1)
  /\ nextId \in 1..(MaxRecords + 1)
  /\ \A c \in Clock : files[c].exists \in BOOLEAN
  /\ now \in Clock
  /\ lastData.op \in {"none", "insert", "query", "stats", "parquet", "update",
                      "delete", "probe"}
  /\ \A c \in Clients :
       pending[c].st \in {"idle", "mkdir", "write", "run", "check", "change"}
  /\ Cardinality(built) <= MaxInits
  /\ nSupplied \in 0..MaxRecords
  /\ nResolved \in 0..nSupplied
  /\ insertRejected \in BOOLEAN

====
